---- MODULE Spec2Model ----
(***************************************************************************)
(* Model of the two pieces of decision logic of opensearch-cluster-cdk:    *)
(*                                                                         *)
(*   - the node topology planner, the distributed/single-node branch of    *)
(*     InfraStack's constructor (src/lib/infra/infra-stack.ts), which      *)
(*     turns role counts into auto scaling groups and listener targets;    *)
(*   - the process supervisor, startCaptureProxy.sh (src/unnamed/part_000),*)
(*     which reconciles the Elasticsearch process, its http.port setting   *)
(*     and the capture proxy process;                                      *)
(*   - the boot command assembler, InfraStack.getCfnInitElement, which     *)
(*     builds the ordered list of cfn-init elements of a node.             *)
(*                                                                         *)
(* PlannerSpec runs one construction of the stack for every combination of *)
(* bounded role counts.  SupervisorSpec runs invocations of the script,    *)
(* one after the other, from every bounded node state; ConcurrentSpec runs *)
(* two of them interleaved.  AssemblerSpec assembles the boot commands of  *)
(* one node for every combination of switches and runs them.               *)
(***************************************************************************)
EXTENDS Integers, Sequences, FiniteSets, TLC

\* ------------------------------------------------------------------ bounds
\* Role counts range over 0..MaxCount.
MaxCount == 2
\* Command lines hold at most MaxArgs words.
MaxArgs == 3
\* elasticsearch.yml holds at most MaxDocLen lines.
MaxDocLen == 2
\* additionalConfig holds at most MaxOverlayLen settings.
MaxOverlayLen == 1

\* ------------------------------------------------------------ the planner
VARIABLES
  props,               \* infraProps: the role counts and switches of one stack
  ppc,                 \* position of the constructor
  managerAsgCapacity,  \* let managerAsgCapacity: number
  dataAsgCapacity,     \* let dataAsgCapacity: number
  seedConfig,          \* let seedConfig: string
  groups,              \* the AutoScalingGroup objects, in order of construction;
                       \* an object's identity is its index in this sequence
  dataNodeAsg,         \* const dataNodeAsg (index into groups, 0 before it exists)
  clientNodeAsg,       \* let clientNodeAsg (index into groups, 0 before it is set)
  singleNodeInstance,  \* whether the single-node Instance has been constructed
  targets              \* the addTargets calls made on the listeners

plannerVars == <<props, ppc, managerAsgCapacity, dataAsgCapacity, seedConfig,
                 groups, dataNodeAsg, clientNodeAsg, singleNodeInstance, targets>>

\* The state of the supervisor.
VARIABLES
  doc,                 \* elasticsearch.yml: [exists, lines]
  ptable,              \* the process table, with its history: ptable[pid] is
                       \* [name, st]; st is starting, up, failed (exited during
                       \* start-up) or killed
  pc,                  \* position of each invocation of the script
  args,                \* "$@" of each invocation, until the loop has consumed it
  KAFKA_ENDPOINTS,     \* the shell variables of each invocation
  es_pid,
  capture_pid,
  es_http_port_entry,
  es_needs_restart,
  exitCode,            \* exit status of each invocation, -1 while it runs
  log                  \* what each invocation has done so far, in order

supervisorVars == <<doc, ptable, pc, args, KAFKA_ENDPOINTS, es_pid, capture_pid,
                    es_http_port_entry, es_needs_restart, exitCode, log>>

VARIABLES
  aprops,         \* props of getCfnInitElement: the switches it reads
  aNodeType,      \* nodeType?: string, the argument of getCfnInitElement
  apc,            \* position in getCfnInitElement
  cfnInitConfig,  \* const cfnInitConfig: InitElement[]
  boot            \* the node after cfn-init has run the elements

assemblerVars == <<aprops, aNodeType, apc, cfnInitConfig, boot>>

vars == <<plannerVars, supervisorVars, assemblerVars>>

Counts == 0..MaxCount

\* The fields of infraProps the constructor's branches read.  dashboards
\* stands for props.dashboardsUrl !== 'undefined'.
PropsSet ==
  [singleNodeCluster : BOOLEAN,
   managerNodeCount  : Counts,
   dataNodeCount     : Counts,
   ingestNodeCount   : Counts,
   clientNodeCount   : Counts,
   mlNodeCount       : Counts,
   dashboards        : BOOLEAN]

\* new AutoScalingGroup(this, id, {minCapacity, maxCapacity, desiredCapacity,
\* init: getCfnInitElement(..., nodeType)})
AutoScalingGroup(id, capacity, nodeType) ==
  [id |-> id, nodeType |-> nodeType,
   maxCapacity |-> capacity, minCapacity |-> capacity, desiredCapacity |-> capacity]

\* The listeners of the load balancer: the two OpenSearch listeners always,
\* the dashboards listener when a dashboards URL is given.
Listeners(p) ==
  {"opensearchListener", "opensearchListener19200"}
    \cup (IF p.dashboards THEN {"dashboardsListener"} ELSE {})

ManagerAsgCapacity_SeedNotCarved(m) == m

\* managerAsgCapacity as the seed election assigns it.
ManagerAsgCapacity(m) == IF m > 0 THEN m - 1 ELSE m

DataAsgCapacity_OffByOne(m, d) == IF m > 0 THEN d ELSE d

\* dataAsgCapacity as the seed election assigns it.
DataAsgCapacity(m, d) == IF m > 0 THEN d ELSE d - 1

\* The test that decides whether a manager group is built, and with it the
\* seed's configuration.
HasManagerGroup(cap) == cap > 0

ReusesDataGroup_Never(c) == FALSE

\* The test that makes the data group the client-facing group.
ReusesDataGroup(c) == c = 0

PlannerInit ==
  /\ props \in PropsSet
  /\ ppc = "start"
  /\ managerAsgCapacity = 0
  /\ dataAsgCapacity = 0
  /\ seedConfig = ""
  /\ groups = <<>>
  /\ dataNodeAsg = 0
  /\ clientNodeAsg = 0
  /\ singleNodeInstance = FALSE
  /\ targets = {}

\* if (props.singleNodeCluster) { ... }: one Instance, registered with every
\* listener; no group is built.
SingleNode ==
  /\ ppc = "start"
  /\ props.singleNodeCluster
  /\ singleNodeInstance' = TRUE
  /\ targets' = {[listener |-> l, kind |-> "instance", ref |-> 1] : l \in Listeners(props)}
  /\ ppc' = "done"
  /\ UNCHANGED <<props, managerAsgCapacity, dataAsgCapacity, seedConfig, groups,
                 dataNodeAsg, clientNodeAsg>>
  /\ UNCHANGED <<supervisorVars, assemblerVars>>

\* else { if (props.managerNodeCount > 0) {...} else {...} }
ElectSeed ==
  /\ ppc = "start"
  /\ ~props.singleNodeCluster
  /\ managerAsgCapacity' = ManagerAsgCapacity(props.managerNodeCount)
  /\ dataAsgCapacity' = DataAsgCapacity(props.managerNodeCount, props.dataNodeCount)
  /\ ppc' = "manager"
  /\ UNCHANGED <<props, seedConfig, groups, dataNodeAsg, clientNodeAsg,
                 singleNodeInstance, targets>>
  /\ UNCHANGED <<supervisorVars, assemblerVars>>

\* if (managerAsgCapacity > 0) { managerNodeAsg; seedConfig = 'seed-manager' }
\* else { seedConfig = 'seed-data' }
PlanManager ==
  /\ ppc = "manager"
  /\ IF HasManagerGroup(managerAsgCapacity)
       THEN /\ groups' = Append(groups,
                           AutoScalingGroup("managerNodeAsg", managerAsgCapacity, "manager"))
            /\ seedConfig' = "seed-manager"
       ELSE /\ groups' = groups
            /\ seedConfig' = "seed-data"
  /\ ppc' = "seed"
  /\ UNCHANGED <<props, managerAsgCapacity, dataAsgCapacity, dataNodeAsg,
                 clientNodeAsg, singleNodeInstance, targets>>
  /\ UNCHANGED <<supervisorVars, assemblerVars>>

\* const seedNodeAsg = new AutoScalingGroup(..., capacity 1, seedConfig)
PlanSeed ==
  /\ ppc = "seed"
  /\ groups' = Append(groups, AutoScalingGroup("seedNodeAsg", 1, seedConfig))
  /\ ppc' = "data"
  /\ UNCHANGED <<props, managerAsgCapacity, dataAsgCapacity, seedConfig,
                 dataNodeAsg, clientNodeAsg, singleNodeInstance, targets>>
  /\ UNCHANGED <<supervisorVars, assemblerVars>>

\* const dataNodeAsg = new AutoScalingGroup(..., dataAsgCapacity, 'data'):
\* built whatever dataAsgCapacity is.
PlanData ==
  /\ ppc = "data"
  /\ groups' = Append(groups, AutoScalingGroup("dataNodeAsg", dataAsgCapacity, "data"))
  /\ dataNodeAsg' = Len(groups) + 1
  /\ ppc' = "client"
  /\ UNCHANGED <<props, managerAsgCapacity, dataAsgCapacity, seedConfig,
                 clientNodeAsg, singleNodeInstance, targets>>
  /\ UNCHANGED <<supervisorVars, assemblerVars>>

\* if (props.clientNodeCount === 0) clientNodeAsg = dataNodeAsg
\* else clientNodeAsg = new AutoScalingGroup(..., clientNodeCount, 'client')
PlanClient ==
  /\ ppc = "client"
  /\ IF ReusesDataGroup(props.clientNodeCount)
       THEN /\ clientNodeAsg' = dataNodeAsg
            /\ groups' = groups
       ELSE /\ groups' = Append(groups,
                           AutoScalingGroup("clientNodeAsg", props.clientNodeCount, "client"))
            /\ clientNodeAsg' = Len(groups) + 1
  /\ ppc' = "ml"
  /\ UNCHANGED <<props, managerAsgCapacity, dataAsgCapacity, seedConfig,
                 dataNodeAsg, singleNodeInstance, targets>>
  /\ UNCHANGED <<supervisorVars, assemblerVars>>

\* if (props.mlNodeCount > 0) { mlNodeAsg }
PlanMl ==
  /\ ppc = "ml"
  /\ groups' = IF props.mlNodeCount > 0
                 THEN Append(groups, AutoScalingGroup("mlNodeAsg", props.mlNodeCount, "ml"))
                 ELSE groups
  /\ ppc' = "targets"
  /\ UNCHANGED <<props, managerAsgCapacity, dataAsgCapacity, seedConfig,
                 dataNodeAsg, clientNodeAsg, singleNodeInstance, targets>>
  /\ UNCHANGED <<supervisorVars, assemblerVars>>

\* opensearchListener.addTargets / opensearchListener19200.addTargets /
\* dashboardsListener.addTargets, each with targets: [clientNodeAsg]
RegisterTargets ==
  /\ ppc = "targets"
  /\ targets' = {[listener |-> l, kind |-> "asg", ref |-> clientNodeAsg] :
                   l \in Listeners(props)}
  /\ ppc' = "done"
  /\ UNCHANGED <<props, managerAsgCapacity, dataAsgCapacity, seedConfig, groups,
                 dataNodeAsg, clientNodeAsg, singleNodeInstance>>
  /\ UNCHANGED <<supervisorVars, assemblerVars>>

PlannerNext ==
  \/ SingleNode
  \/ ElectSeed
  \/ PlanManager
  \/ PlanSeed
  \/ PlanData
  \/ PlanClient
  \/ PlanMl
  \/ RegisterTargets

\* ------------------------------------------------- properties of the planner
Distributed == ~props.singleNodeCluster
Planned == ppc = "done" /\ Distributed

\* The groups built under a construct id, as indices into groups.
GroupsWithId(id) == {i \in DOMAIN groups : groups[i].id = id}

\* The desired count of the group built under an id; 0 when there is none.
DesiredCount(id) ==
  IF GroupsWithId(id) = {} THEN 0
  ELSE groups[CHOOSE i \in GroupsWithId(id) : TRUE].desiredCapacity

\* The configuration the seed node is initialised with.
SeedRole == groups[CHOOSE i \in GroupsWithId("seedNodeAsg") : TRUE].nodeType

\* C1: in distributed mode, every managerCount > 0 (1 included) makes the seed
\* a manager (seed-manager configuration), the manager group managerCount - 1
\* and the data group dataCount.
C1_ManagerSeed ==
  (Planned /\ props.managerNodeCount > 0) =>
    /\ SeedRole = "seed-manager"
    /\ DesiredCount("managerNodeAsg") = props.managerNodeCount - 1
    /\ DesiredCount("dataNodeAsg") = props.dataNodeCount

\* C2: in distributed mode with managerCount = 0 and dataCount > 0 the seed is
\* a data node (seed-data configuration), the data group's desired count is
\* dataCount - 1, and no manager group is planned.
C2_DataSeed ==
  (Planned /\ props.managerNodeCount = 0 /\ props.dataNodeCount > 0) =>
    /\ SeedRole = "seed-data"
    /\ Cardinality(GroupsWithId("dataNodeAsg")) = 1
    /\ DesiredCount("dataNodeAsg") = props.dataNodeCount - 1
    /\ GroupsWithId("managerNodeAsg") = {}

C2_Witness ==
  /\ Planned
  /\ props.managerNodeCount = 0
  /\ props.dataNodeCount = 2
  /\ SeedRole = "seed-data"
  /\ DesiredCount("dataNodeAsg") = 1

\* C3: with managerCount = 0 and dataCount = 0 in distributed mode no group is
\* ever planned (the input is rejected first), and no group with a negative
\* desired, minimum or maximum count exists for any role counts.
C3_ZeroZeroRejected ==
  /\ (Distributed /\ props.managerNodeCount = 0 /\ props.dataNodeCount = 0) =>
       groups = <<>>
  /\ \A i \in DOMAIN groups :
       /\ groups[i].desiredCapacity >= 0
       /\ groups[i].minCapacity >= 0
       /\ groups[i].maxCapacity >= 0

\* C4: in distributed mode, with clientCount = 0 every listener's target is
\* the data group object itself and no client group is built; with
\* clientCount > 0 every listener's target is a separate client group of
\* clientCount instances.
C4_ClientTarget ==
  Planned =>
    /\ {t.listener : t \in targets} = Listeners(props)
    /\ \A t \in targets :
         /\ t.kind = "asg"
         /\ t.ref \in DOMAIN groups
         /\ IF props.clientNodeCount = 0
              THEN /\ t.ref = dataNodeAsg
                   /\ groups[t.ref].id = "dataNodeAsg"
                   /\ GroupsWithId("clientNodeAsg") = {}
              ELSE /\ t.ref # dataNodeAsg
                   /\ groups[t.ref].id = "clientNodeAsg"
                   /\ groups[t.ref].desiredCapacity = props.clientNodeCount
                   /\ Cardinality(GroupsWithId("clientNodeAsg")) = 1

\* clientCount = 0 with a data group as large as a client group could be: the
\* targets are the data group by identity.
C4_Witness ==
  /\ Planned
  /\ props.clientNodeCount = 0
  /\ props.dashboards
  /\ Cardinality(targets) = 3
  /\ dataNodeAsg \in DOMAIN groups
  /\ \A t \in targets : t.ref = dataNodeAsg

\* C5: in distributed mode every group that is built has desired = minimum =
\* maximum > 0: no group of size 0 is built (only the seed for managerCount = 0
\* and dataCount = 1; no data group for managerCount > 0 and dataCount = 0).
C5_NoEmptyGroup ==
  Distributed =>
    \A i \in DOMAIN groups :
      /\ groups[i].desiredCapacity = groups[i].minCapacity
      /\ groups[i].minCapacity = groups[i].maxCapacity
      /\ groups[i].desiredCapacity > 0

\* The sum of the desired counts of a sequence of groups.
RECURSIVE SumDesired(_)
SumDesired(gs) ==
  IF gs = <<>> THEN 0 ELSE Head(gs).desiredCapacity + SumDesired(Tail(gs))

\* The groups of a plan as (id, size) pairs, from the four counts that are
\* provisioned; the ingest count is no argument.
PlanOf(m, d, c, ml) ==
  {<<"seedNodeAsg", 1>>, <<"dataNodeAsg", IF m > 0 THEN d ELSE d - 1>>}
    \cup (IF m > 1 THEN {<<"managerNodeAsg", m - 1>>} ELSE {})
    \cup (IF c > 0 THEN {<<"clientNodeAsg", c>>} ELSE {})
    \cup (IF ml > 0 THEN {<<"mlNodeAsg", ml>>} ELSE {})

\* C16: in distributed mode with managerCount + dataCount >= 1 the sizes of
\* the planned groups add up to managerCount + dataCount + clientCount +
\* mlCount, exactly one seed group of size 1 is planned, and the plan is the
\* same whatever ingestCount is.
C16_PlanSize ==
  (Planned /\ props.managerNodeCount + props.dataNodeCount >= 1) =>
    /\ SumDesired(groups) = props.managerNodeCount + props.dataNodeCount
                              + props.clientNodeCount + props.mlNodeCount
    /\ Cardinality(GroupsWithId("seedNodeAsg")) = 1
    /\ DesiredCount("seedNodeAsg") = 1
    /\ Cardinality({groups[i].id : i \in DOMAIN groups}) = Len(groups)
    /\ {<<groups[i].id, groups[i].desiredCapacity>> : i \in DOMAIN groups}
         = PlanOf(props.managerNodeCount, props.dataNodeCount,
                  props.clientNodeCount, props.mlNodeCount)

C16_Witness ==
  /\ Planned
  /\ props.managerNodeCount = 2 /\ props.dataNodeCount = 1
  /\ props.clientNodeCount = 1 /\ props.mlNodeCount = 1
  /\ props.ingestNodeCount = 2
  /\ Len(groups) = 5
  /\ SumDesired(groups) = 5

\* ------------------------------------------------- the boot command assembler
\* A property that was not passed: the JavaScript value undefined, on which
\* .toString() throws.  The string 'undefined' stands for "not supplied".
Undefined == "(undefined)"

\* The documents the commands write, by the path below /home/ec2-user.
ElasticsearchYml == <<"elasticsearch", "config/elasticsearch.yml">>
OpensearchYml == <<"opensearch", "config/opensearch.yml">>
JvmOptions == <<"elasticsearch", "config/jvm.options">>
DashboardsYml == <<"opensearch-dashboards", "config/opensearch_dashboards.yml">>
NoFile == <<"", "">>

\* The settings a user overlay may name: one of the base document, one of the
\* role overlay, and one that no structural write names.
UserKeys == {"cluster.name", "node.roles", "http.port"}

\* props.additionalConfig: not passed, 'undefined', or raw text of settings.
AdditionalConfigs ==
  {[given |-> g, keys |-> <<>>] : g \in {Undefined, "undefined"}}
    \cup {[given |-> "text", keys |-> k] :
            k \in UNION {[1..n -> UserKeys] : n \in 1..MaxOverlayLen}}

\* The node types the constructor passes: none for the single node, and
\* 'manager', seedConfig, 'data', 'client', 'ml' for the groups.
Null == "(null)"
NodeTypes == {"manager", "seed-manager", "seed-data", "data", "client", "ml"}

\* The switches getCfnInitElement reads.
APropsSet ==
  [singleNodeCluster : BOOLEAN, minDistribution : BOOLEAN,
   securityDisabled : BOOLEAN, enableRemoteStore : BOOLEAN,
   jvmSysPropsString : {Undefined, "undefined", "a=1"},
   use50PercentHeap : BOOLEAN,
   additionalConfig : AdditionalConfigs,
   captureProxyEnabled : {"", "true"},
   dashboardsUrl : {"undefined", "url"},
   additionalOsdConfig : {Undefined, "undefined", "osd"}]

\* One element of the list.  op is what cfn-init does with it: install a
\* package, create a file, run a shell command that creates a directory
\* ("mkdir"), writes a file with > ("truncate") or >> ("append"), edits one
\* with sed -i ("sed"), starts a service in the background ("start") or does
\* none of these ("exec").  doc is the document written, with the directory
\* the command enters first; text is the settings written, each with its
\* origin; part names the overlay.
InitElement(op, d, text, part) ==
  [op |-> op, doc |-> d, text |-> text, part |-> part]

\* A shell command that only enters a directory and runs a program there.
InitCommand(op, dir, part) == InitElement(op, <<dir, "">>, <<>>, part)

\* The settings of a structural overlay and of the user overlay.
Structural(keys) == [i \in DOMAIN keys |-> <<keys[i], "structural">>]
UserText(keys) == [i \in DOMAIN keys |-> <<keys[i], "user">>]

\* if (x) on a string.
Truthy(s) == s # ""

\* lines 432-499: the cloudwatch agent, sysctl, the distribution, sleep 15.
BaseElements ==
  << InitElement("package", NoFile, <<>>, "cloudwatch"),
     InitElement("file", <<"/opt/aws", "amazon-cloudwatch-agent.json">>, <<>>, "cloudwatch"),
     InitCommand("exec", "", "cloudwatch-stop"),
     InitCommand("exec", "", "cloudwatch-fetch-config"),
     InitCommand("exec", "", "sysctl"),
     InitElement("mkdir", <<"elasticsearch", "">>, <<>>, "distribution"),
     InitCommand("exec", "", "sleep") >>

\* lines 502-511: the single-node document, cluster.name set in it.
SingleNodeElements ==
  << InitElement("truncate", ElasticsearchYml, Structural(<<"cluster.name">>), "base") >>

\* lines 547-577: the five remote store attributes.
RemoteStoreElements ==
  [i \in 1..5 |->
     InitElement("append", OpensearchYml,
                 Structural(<<"node.attr.remote_store">>), "remote-store")]

\* lines 513-578: the multi-node document with cluster.name and the discovery
\* tag, the overlay of the node type, the discovery plugin, the remote store.
MultiNodeElements(p, type) ==
  << InitElement("truncate", ElasticsearchYml,
                 Structural(<<"cluster.name", "discovery.ec2.tag.Name">>), "base") >>
  \o (IF type # Null
        THEN << InitElement("append", ElasticsearchYml, Structural(<<"node.roles">>), "role") >>
        ELSE <<>>)
  \o (IF ~p.minDistribution
        THEN << InitCommand("exec", "elasticsearch", "discovery-ec2") >>
        ELSE <<>>)
  \o (IF p.enableRemoteStore THEN RemoteStoreElements ELSE <<>>)

\* lines 606-630: the JVM properties and the heap size.
JvmElements(p) ==
  (IF p.jvmSysPropsString # "undefined"
     THEN << InitElement("append", JvmOptions, <<>>, "jvm") >>
     ELSE <<>>)
  \o (IF p.use50PercentHeap
        THEN << InitElement("sed", JvmOptions, <<>>, "heap") >>
        ELSE <<>>)

\* lines 632-640: echo "${props.additionalConfig}">>config/elasticsearch.yml
UserOverlayElements(p) ==
  IF p.additionalConfig.given # "undefined"
    THEN << InitElement("append", ElasticsearchYml,
                        UserText(p.additionalConfig.keys), "user") >>
    ELSE <<>>

\* lines 642-647: the final run command.
StartElements == << InitCommand("start", "elasticsearch", "elasticsearch") >>

\* lines 651-662: the capture proxy and its start script.
CaptureProxyElements(p) ==
  IF Truthy(p.captureProxyEnabled)
    THEN << InitCommand("exec", "capture-proxy", "capture-proxy"),
            InitElement("file", <<"capture-proxy", "startCaptureProxy.sh">>, <<>>,
                        "capture-proxy") >>
    ELSE <<>>

\* lines 665-705: dashboards, up to its start.
DashboardsElements(p) ==
  IF p.dashboardsUrl # "undefined"
    THEN << InitElement("mkdir", <<"opensearch-dashboards", "">>, <<>>, "dashboards"),
            InitElement("append", DashboardsYml, <<>>, "dashboards") >>
         \o (IF p.securityDisabled /\ ~p.minDistribution
               THEN << InitElement("sed", DashboardsYml, <<>>, "dashboards-security") >>
               ELSE <<>>)
         \o (IF p.additionalOsdConfig # "undefined"
               THEN << InitElement("append", DashboardsYml, <<>>, "dashboards-user") >>
               ELSE <<>>)
         \o << InitCommand("start", "opensearch-dashboards", "dashboards") >>
    ELSE <<>>

\* The node before cfn-init runs.
NotBooted ==
  [dirs |-> {}, yml |-> <<>>, started |-> {}, failed |-> FALSE, ymlAtStart |-> <<>>]

\* One command run on the node.  Every command has set -e: entering a
\* directory that does not exist ends the run (ignoreErrors: false).
RunCommand(st, e) ==
  IF st.failed \/ e.op \in {"package", "file"} THEN st
  ELSE IF e.op = "mkdir" THEN [st EXCEPT !.dirs = @ \cup {e.doc[1]}]
  ELSE IF e.doc[1] \notin st.dirs \cup {""} THEN [st EXCEPT !.failed = TRUE]
  ELSE IF e.op = "truncate" /\ e.doc = ElasticsearchYml THEN [st EXCEPT !.yml = e.text]
  ELSE IF e.op = "append" /\ e.doc = ElasticsearchYml THEN [st EXCEPT !.yml = @ \o e.text]
  ELSE IF e.op = "start"
    THEN [st EXCEPT !.started = @ \cup {e.part},
                    !.ymlAtStart = IF e.part = "elasticsearch" /\ e.part \notin st.started
                                     THEN st.yml ELSE @]
  ELSE st

RECURSIVE RunFrom(_, _, _)
RunFrom(els, i, st) ==
  IF i > Len(els) THEN st ELSE RunFrom(els, i + 1, RunCommand(st, els[i]))

\* cfn-init on the elements: the files first, with their directories, then
\* the commands in the order of the list.
CfnInit(els) ==
  RunFrom(els, 1,
          [NotBooted EXCEPT !.dirs = {els[i].doc[1] : i \in {j \in DOMAIN els : els[j].op = "file"}}])

AssemblerIdle ==
  /\ aprops = [singleNodeCluster |-> FALSE, minDistribution |-> FALSE,
               securityDisabled |-> FALSE, enableRemoteStore |-> FALSE,
               jvmSysPropsString |-> "undefined", use50PercentHeap |-> FALSE,
               additionalConfig |-> [given |-> "undefined", keys |-> <<>>],
               captureProxyEnabled |-> "", dashboardsUrl |-> "undefined",
               additionalOsdConfig |-> "undefined"]
  /\ aNodeType = Null
  /\ apc = "idle"
  /\ cfnInitConfig = <<>>
  /\ boot = NotBooted

\* getCfnInitElement is entered, for the single node or for a node of a group.
AssemblerInit ==
  /\ aprops \in APropsSet
  /\ aNodeType \in (IF aprops.singleNodeCluster THEN {Null} ELSE NodeTypes)
  /\ apc = "base"
  /\ cfnInitConfig = <<>>
  /\ boot = NotBooted

\* cfnInitConfig.push(...) of the elements of one block.
Push(els, next) ==
  /\ cfnInitConfig' = cfnInitConfig \o els
  /\ apc' = next
  /\ UNCHANGED <<aprops, aNodeType, boot>>

\* TypeError: .toString() of undefined.
Throw ==
  /\ apc' = "thrown"
  /\ UNCHANGED <<aprops, aNodeType, cfnInitConfig, boot>>

AssembleBase ==
  /\ apc = "base"
  /\ Push(BaseElements, "config")
  /\ UNCHANGED <<plannerVars, supervisorVars>>

AssembleConfig ==
  /\ apc = "config"
  /\ Push(IF aprops.singleNodeCluster THEN SingleNodeElements
                                      ELSE MultiNodeElements(aprops, aNodeType), "jvm")
  /\ UNCHANGED <<plannerVars, supervisorVars>>

AssembleJvm ==
  /\ apc = "jvm"
  /\ IF aprops.jvmSysPropsString = Undefined
       THEN Throw
       ELSE Push(JvmElements(aprops), "user")
  /\ UNCHANGED <<plannerVars, supervisorVars>>

\* The user overlay put at the head of the list.
AssembleUserOverlay_First ==
  /\ apc = "user"
  /\ IF aprops.additionalConfig.given = Undefined
       THEN Throw
       ELSE /\ cfnInitConfig' = UserOverlayElements(aprops) \o cfnInitConfig
            /\ apc' = "start"
            /\ UNCHANGED <<aprops, aNodeType, boot>>
  /\ UNCHANGED <<plannerVars, supervisorVars>>

AssembleUserOverlay ==
  /\ apc = "user"
  /\ IF aprops.additionalConfig.given = Undefined
       THEN Throw
       ELSE Push(UserOverlayElements(aprops), "start")
  /\ UNCHANGED <<plannerVars, supervisorVars>>

AssembleStart ==
  /\ apc = "start"
  /\ Push(StartElements, "proxy")
  /\ UNCHANGED <<plannerVars, supervisorVars>>

AssembleCaptureProxy ==
  /\ apc = "proxy"
  /\ Push(CaptureProxyElements(aprops), "dashboards")
  /\ UNCHANGED <<plannerVars, supervisorVars>>

AssembleDashboards ==
  /\ apc = "dashboards"
  /\ IF aprops.dashboardsUrl # "undefined" /\ aprops.additionalOsdConfig = Undefined
       THEN Throw
       ELSE Push(DashboardsElements(aprops), "assembled")
  /\ UNCHANGED <<plannerVars, supervisorVars>>

\* The instance boots and cfn-init runs the elements.
Boot ==
  /\ apc = "assembled"
  /\ boot' = CfnInit(cfnInitConfig)
  /\ apc' = "booted"
  /\ UNCHANGED <<aprops, aNodeType, cfnInitConfig>>
  /\ UNCHANGED <<plannerVars, supervisorVars>>

AssemblerNext ==
  \/ AssembleBase
  \/ AssembleConfig
  \/ AssembleJvm
  \/ AssembleUserOverlay
  \/ AssembleStart
  \/ AssembleCaptureProxy
  \/ AssembleDashboards
  \/ Boot

\* ------------------------------------------------ properties of the assembler
\* The list is complete.
Assembled == apc \in {"assembled", "booted"}

\* A user overlay was supplied.
Supplied == aprops.additionalConfig.given = "text"

\* The positions of the elements that write a document.
WritesTo(d) ==
  {i \in DOMAIN cfnInitConfig :
     cfnInitConfig[i].doc = d /\ cfnInitConfig[i].op \in {"truncate", "append", "sed"}}

\* The positions of the structural and feature overlays.
StructuralWrites ==
  {i \in DOMAIN cfnInitConfig : cfnInitConfig[i].part \in {"base", "role", "remote-store"}}

UserAppends == {i \in DOMAIN cfnInitConfig : cfnInitConfig[i].part = "user"}

PrimaryStarts ==
  {i \in DOMAIN cfnInitConfig :
     cfnInitConfig[i].op = "start" /\ cfnInitConfig[i].part = "elasticsearch"}

\* The origin of the last occurrence of a setting in a document.
Resolve(d, key) ==
  LET at == {i \in DOMAIN d : d[i][1] = key}
  IN  IF at = {} THEN "none" ELSE d[CHOOSE i \in at : \A j \in at : j <= i][2]

\* C12: in the complete list, for every node type and both modes, a supplied
\* user overlay is appended to elasticsearch.yml by one element that comes
\* after every other write to that document and after every structural and
\* feature overlay, and before the command that starts Elasticsearch; in the
\* document Elasticsearch starts with, every setting of the user overlay
\* resolves to the user's value when the last occurrence wins.
C12_UserOverlayLast ==
  (Assembled /\ Supplied) =>
    /\ Cardinality(UserAppends) = 1
    /\ PrimaryStarts # {}
    /\ \A u \in UserAppends :
         /\ cfnInitConfig[u].op = "append"
         /\ cfnInitConfig[u].doc = ElasticsearchYml
         /\ \A i \in (WritesTo(ElasticsearchYml) \cup StructuralWrites) \ {u} : i < u
         /\ \A i \in PrimaryStarts : u < i
    /\ (apc = "booted" /\ "elasticsearch" \in boot.started) =>
         \A k \in DOMAIN aprops.additionalConfig.keys :
           Resolve(boot.ymlAtStart, aprops.additionalConfig.keys[k]) = "user"

\* A data node has booted and started Elasticsearch with a document in which
\* node.roles occurs in the role overlay and, after it, in the user overlay.
C12_Witness ==
  /\ apc = "booted"
  /\ aNodeType = "data"
  /\ aprops.additionalConfig = [given |-> "text", keys |-> <<"node.roles">>]
  /\ "elasticsearch" \in boot.started
  /\ \E i, j \in DOMAIN boot.ymlAtStart :
       /\ i < j
       /\ boot.ymlAtStart[i] = <<"node.roles", "structural">>
       /\ boot.ymlAtStart[j] = <<"node.roles", "user">>

\* --------------------------------------------------------- the supervisor
\* The script may be run again on the same node: invocation 2 follows
\* invocation 1.
Invocations == {1, 2}

\* The port Elasticsearch is moved to ('http.port: 19200').
InternalPort == 19200
\* The port the capture proxy listens on (--listenPort 9200), Elasticsearch's
\* default before the move.
ListenPort == 9200

PortLine(n) == [key |-> "http.port", value |-> n]
OtherLine == [key |-> "cluster.name", value |-> 0]
Lines == {OtherLine, PortLine(ListenPort), PortLine(InternalPort)}

SeqsUpTo(S, n) == UNION {[1..k -> S] : k \in 0..n}

Docs ==
  {[exists |-> TRUE, lines |-> l] : l \in SeqsUpTo(Lines, MaxDocLen)}
    \cup {[exists |-> FALSE, lines |-> <<>>]}

\* The words of a command line: the option, the two spellings of help, an
\* unknown option, and a word that is no option.
Words == {"--kafka-endpoints", "-h", "--help", "--verbose", "broker1:9092"}
ArgLists == SeqsUpTo(Words, MaxArgs)

IsHelp(w) == w \in {"-h", "--help"}
\* case pattern -*
IsDash_HelpOnly(w) == w \in {"--kafka-endpoints", "-h", "--help"}

IsDash(w) == w \in {"--kafka-endpoints", "-h", "--help", "--verbose"}

Unset == "(unset)"

\* The while/case loop over "$@".  outcome is ok (the loop ran to the end),
\* usage (usage was called: exit 1), or shift_failed (the second shift after a
\* trailing --kafka-endpoints fails and set -e ends the script with status 1).
RECURSIVE ParseArgs(_, _)
ParseArgs(a, kafka) ==
  IF a = <<>> THEN [outcome |-> "ok", kafka |-> kafka, unknown |-> FALSE]
  ELSE IF Head(a) = "--kafka-endpoints"
    THEN IF Len(a) >= 2
           THEN ParseArgs(SubSeq(a, 3, Len(a)), a[2])
           ELSE [outcome |-> "shift_failed", kafka |-> "", unknown |-> FALSE]
  ELSE IF IsHelp(Head(a))
    THEN [outcome |-> "usage", kafka |-> kafka, unknown |-> FALSE]
  ELSE IF IsDash(Head(a))
    THEN [outcome |-> "usage", kafka |-> kafka, unknown |-> TRUE]
  ELSE ParseArgs(Tail(a), kafka)

\* pgrep -f <name> || echo "": the pids of the live processes of that name.
Pgrep(name) ==
  {pid \in DOMAIN ptable : ptable[pid].name = name /\ ptable[pid].st \in {"starting", "up"}}

\* [ -n "$es_pid" ] && [ -n "$capture_pid" ]
BothRunning_Negated(e, c) == e = {} /\ c = {}

BothRunning(e, c) == e # {} /\ c # {}

\* cat elasticsearch.yml | grep "http.port": the matching lines, in order.
GrepPort(d) == SelectSeq(d.lines, LAMBDA l : l.key = "http.port")

\* The assignment es_http_port_entry=$(cat ... | grep ...) fails, and set -e
\* ends the script, when grep selects nothing (no such line, or no file).
GrepFails(d) == ~d.exists \/ GrepPort(d) = <<>>

\* sed -i 's/http.port: [0-9]\+/http.port: 19200/' elasticsearch.yml
Sed_NoOp(l) == l

Sed(l) == [i \in 1..Len(l) |->
             IF l[i].key = "http.port" THEN PortLine(InternalPort) ELSE l[i]]

\* [[ "$es_http_port_entry" == "http.port: 19200" ]]
PortIsCorrect(entry) == entry = <<PortLine(InternalPort)>>

RewritePort_KeepAll(l, entry) == l

\* The if/elif/else over es_http_port_entry: the lines of the file afterwards.
RewritePort(l, entry) ==
  IF entry = <<>> THEN Append(l, PortLine(InternalPort))
  ELSE IF PortIsCorrect(entry) THEN l
  ELSE Sed(l)

\* es_needs_restart after the if/elif/else.
NeedsRestart(entry) == ~PortIsCorrect(entry)

Launch(name) == Append(ptable, [name |-> name, st |-> "starting"])

\* kill "$pid" succeeds when its one argument is the pid of a live process.
KillOk(pids) ==
  Cardinality(pids) = 1 /\ \A pid \in pids : ptable[pid].st \in {"starting", "up"}

Kill(pids) == [pid \in DOMAIN ptable |->
                 IF pid \in pids THEN [ptable[pid] EXCEPT !.st = "killed"] ELSE ptable[pid]]

\* The node before the script runs: each of the two processes is up or not
\* there, and elasticsearch.yml is any bounded document or is missing.
InitialTables ==
  {<<>>,
   <<[name |-> "es", st |-> "up"]>>,
   <<[name |-> "capture", st |-> "up"]>>,
   <<[name |-> "es", st |-> "up"], [name |-> "capture", st |-> "up"]>>}

SupervisorIdle ==
  /\ pc = [p \in Invocations |-> "idle"]
  /\ args = [p \in Invocations |-> <<>>]
  /\ KAFKA_ENDPOINTS = [p \in Invocations |-> Unset]
  /\ es_pid = [p \in Invocations |-> {}]
  /\ capture_pid = [p \in Invocations |-> {}]
  /\ es_http_port_entry = [p \in Invocations |-> <<>>]
  /\ es_needs_restart = [p \in Invocations |-> FALSE]
  /\ exitCode = [p \in Invocations |-> -1]
  /\ log = [p \in Invocations |-> <<>>]

SupervisorInit ==
  /\ doc \in Docs
  /\ ptable \in InitialTables
  /\ SupervisorIdle

\* The script ends with status n, after the events evs.
Exit(p, n, evs) ==
  /\ pc' = [pc EXCEPT ![p] = "done"]
  /\ exitCode' = [exitCode EXCEPT ![p] = n]
  /\ log' = [log EXCEPT ![p] = log[p] \o evs]

\* The script goes on to the step where, after the events evs.
Goto(p, where, evs) ==
  /\ pc' = [pc EXCEPT ![p] = where]
  /\ log' = [log EXCEPT ![p] = log[p] \o evs]
  /\ UNCHANGED exitCode

\* The script is started with a command line.  Invocations run one after the
\* other.
Invoke(p) ==
  /\ pc[p] = "idle"
  /\ \A q \in Invocations : q < p => pc[q] = "done"
  /\ \E a \in ArgLists : args' = [args EXCEPT ![p] = a]
  /\ pc' = [pc EXCEPT ![p] = "parse"]
  /\ UNCHANGED <<doc, ptable, KAFKA_ENDPOINTS, es_pid, capture_pid,
                 es_http_port_entry, es_needs_restart, exitCode, log>>
  /\ UNCHANGED <<plannerVars, assemblerVars>>

\* while [[ $# -gt 0 ]]; do case $1 in ... esac; done.  Afterwards the command
\* line is gone: shifted away, or the script has ended.
Parse(p) ==
  /\ pc[p] = "parse"
  /\ LET r == ParseArgs(args[p], Unset) IN
       /\ KAFKA_ENDPOINTS' = [KAFKA_ENDPOINTS EXCEPT ![p] = r.kafka]
       /\ CASE r.outcome = "ok" -> Goto(p, "observe_es", <<>>)
            [] r.outcome = "usage" ->
                 Exit(p, 1, IF r.unknown THEN <<"unknown_option", "usage">> ELSE <<"usage">>)
            [] r.outcome = "shift_failed" -> Exit(p, 1, <<>>)
  /\ args' = [args EXCEPT ![p] = <<>>]
  /\ UNCHANGED <<doc, ptable, es_pid, capture_pid, es_http_port_entry, es_needs_restart>>
  /\ UNCHANGED <<plannerVars, assemblerVars>>

\* es_pid=$(pgrep -f "bin/elasticsearch" || echo "")
ObserveEs(p) ==
  /\ pc[p] = "observe_es"
  /\ es_pid' = [es_pid EXCEPT ![p] = Pgrep("es")]
  /\ Goto(p, "observe_capture", <<"pgrep_es">>)
  /\ UNCHANGED <<doc, ptable, args, KAFKA_ENDPOINTS, capture_pid,
                 es_http_port_entry, es_needs_restart>>
  /\ UNCHANGED <<plannerVars, assemblerVars>>

\* capture_pid=$(pgrep -f "trafficCaptureProxyServer" || echo ""), then
\* if [ -n "$es_pid" ] && [ -n "$capture_pid" ]; then exit 0
ObserveCapture(p) ==
  /\ pc[p] = "observe_capture"
  /\ capture_pid' = [capture_pid EXCEPT ![p] = Pgrep("capture")]
  /\ IF BothRunning(es_pid[p], Pgrep("capture"))
       THEN Exit(p, 0, <<"pgrep_capture">>)
       ELSE Goto(p, "port", <<"pgrep_capture">>)
  /\ UNCHANGED <<doc, ptable, args, KAFKA_ENDPOINTS, es_pid,
                 es_http_port_entry, es_needs_restart>>
  /\ UNCHANGED <<plannerVars, assemblerVars>>

\* cd config; es_http_port_entry=$(cat elasticsearch.yml | grep "http.port");
\* the if/elif/else that appends, keeps or replaces the setting
ReconcilePort(p) ==
  /\ pc[p] = "port"
  /\ IF GrepFails(doc)
       THEN /\ Exit(p, 1, <<"read_config">>)
            /\ UNCHANGED <<doc, es_http_port_entry, es_needs_restart>>
       ELSE LET entry == GrepPort(doc) IN
            /\ es_http_port_entry' = [es_http_port_entry EXCEPT ![p] = entry]
            /\ es_needs_restart' = [es_needs_restart EXCEPT ![p] = NeedsRestart(entry)]
            /\ doc' = [doc EXCEPT !.lines = RewritePort(doc.lines, entry)]
            /\ Goto(p, "es", IF PortIsCorrect(entry)
                               THEN <<"read_config">>
                               ELSE <<"read_config", "write_config">>)
  /\ UNCHANGED <<ptable, args, KAFKA_ENDPOINTS, es_pid, capture_pid>>
  /\ UNCHANGED <<plannerVars, assemblerVars>>

\* Neither branch of the if/elif at "cd /home/ec2-user/elasticsearch" applies:
\* Elasticsearch runs and needs no restart.
KeepEs(p) ==
  /\ pc[p] = "es"
  /\ es_pid[p] # {}
  /\ ~es_needs_restart[p]
  /\ Goto(p, "capture", <<>>)
  /\ UNCHANGED <<doc, ptable, args, KAFKA_ENDPOINTS, es_pid, capture_pid,
                 es_http_port_entry, es_needs_restart>>
  /\ UNCHANGED <<plannerVars, assemblerVars>>

\* elif [ "$es_needs_restart" = true ]; then kill "$es_pid"
KillEs(p) ==
  /\ pc[p] = "es"
  /\ es_pid[p] # {}
  /\ es_needs_restart[p]
  /\ IF KillOk(es_pid[p])
       THEN /\ ptable' = Kill(es_pid[p])
            /\ Goto(p, "es_relaunch", <<"kill_es">>)
       ELSE /\ ptable' = ptable
            /\ Exit(p, 1, <<"kill_es_failed">>)
  /\ UNCHANGED <<doc, args, KAFKA_ENDPOINTS, es_pid, capture_pid,
                 es_http_port_entry, es_needs_restart>>
  /\ UNCHANGED <<plannerVars, assemblerVars>>

\* sudo -u ec2-user nohup ./bin/elasticsearch &   (either branch)
LaunchEs(p) ==
  /\ \/ pc[p] = "es" /\ es_pid[p] = {}
     \/ pc[p] = "es_relaunch"
  /\ ptable' = Launch("es")
  /\ Goto(p, "capture", <<"launch_es">>)
  /\ UNCHANGED <<doc, args, KAFKA_ENDPOINTS, es_pid, capture_pid,
                 es_http_port_entry, es_needs_restart>>
  /\ UNCHANGED <<plannerVars, assemblerVars>>

\* if [ -n "$capture_pid" ]; then kill "$capture_pid"
KillCapture(p) ==
  /\ pc[p] = "capture"
  /\ capture_pid[p] # {}
  /\ IF KillOk(capture_pid[p])
       THEN /\ ptable' = Kill(capture_pid[p])
            /\ Goto(p, "capture_launch", <<"kill_capture">>)
       ELSE /\ ptable' = ptable
            /\ Exit(p, 1, <<"kill_capture_failed">>)
  /\ UNCHANGED <<doc, args, KAFKA_ENDPOINTS, es_pid, capture_pid,
                 es_http_port_entry, es_needs_restart>>
  /\ UNCHANGED <<plannerVars, assemblerVars>>

\* The launch behind a fresh look at the process table.
LaunchCapture_Recheck(p) ==
  /\ \/ pc[p] = "capture" /\ capture_pid[p] = {}
     \/ pc[p] = "capture_launch"
  /\ IF Pgrep("capture") = {}
       THEN /\ ptable' = Launch("capture")
            /\ Goto(p, "sleep", <<"launch_capture">>)
       ELSE /\ ptable' = ptable
            /\ Goto(p, "sleep", <<>>)
  /\ UNCHANGED <<doc, args, KAFKA_ENDPOINTS, es_pid, capture_pid,
                 es_http_port_entry, es_needs_restart>>
  /\ UNCHANGED <<plannerVars, assemblerVars>>

\* nohup ./trafficCaptureProxyServer --kafkaConnection "$KAFKA_ENDPOINTS" ... &
LaunchCapture(p) ==
  /\ \/ pc[p] = "capture" /\ capture_pid[p] = {}
     \/ pc[p] = "capture_launch"
  /\ ptable' = Launch("capture")
  /\ Goto(p, "sleep", <<"launch_capture">>)
  /\ UNCHANGED <<doc, args, KAFKA_ENDPOINTS, es_pid, capture_pid,
                 es_http_port_entry, es_needs_restart>>
  /\ UNCHANGED <<plannerVars, assemblerVars>>

\* A launched process comes up, or exits during its start-up.
Settle(pid) ==
  /\ ptable[pid].st = "starting"
  /\ \E st \in {"up", "failed"} : ptable' = [ptable EXCEPT ![pid].st = st]
  /\ UNCHANGED <<doc, pc, args, KAFKA_ENDPOINTS, es_pid, capture_pid,
                 es_http_port_entry, es_needs_restart, exitCode, log>>
  /\ UNCHANGED <<plannerVars, assemblerVars>>

\* sleep 5; capture_pid_verify=$(pgrep ...); if [ -z ... ]; then echo, tail; fi
\* echo "Completed startCaptureProxy.sh".  The five seconds are the time in
\* which a capture proxy that fails to start has exited.
Verify(p) ==
  /\ pc[p] = "sleep"
  /\ \A pid \in DOMAIN ptable : ptable[pid].name = "capture" => ptable[pid].st # "starting"
  /\ Exit(p, 0, IF Pgrep("capture") = {}
                  THEN <<"pgrep_capture", "tail_log">>
                  ELSE <<"pgrep_capture">>)
  /\ UNCHANGED <<doc, ptable, args, KAFKA_ENDPOINTS, es_pid, capture_pid,
                 es_http_port_entry, es_needs_restart>>
  /\ UNCHANGED <<plannerVars, assemblerVars>>

SupervisorNext ==
  \/ \E p \in Invocations :
       \/ Invoke(p)
       \/ Parse(p)
       \/ ObserveEs(p)
       \/ ObserveCapture(p)
       \/ ReconcilePort(p)
       \/ KeepEs(p)
       \/ KillEs(p)
       \/ LaunchEs(p)
       \/ KillCapture(p)
       \/ LaunchCapture(p)
       \/ Verify(p)
  \/ \E pid \in DOMAIN ptable : Settle(pid)

\* The command lines of two invocations that run at the same time: none, the
\* option with a value, and help.
ConcurrentArgLists == {<<>>, <<"--kafka-endpoints", "broker1:9092">>, <<"--help">>}

\* The script is started while another run of it may be under way.  Nothing in
\* the script waits for the other.
InvokeConcurrently(p) ==
  /\ pc[p] = "idle"
  /\ \E a \in ConcurrentArgLists : args' = [args EXCEPT ![p] = a]
  /\ pc' = [pc EXCEPT ![p] = "parse"]
  /\ UNCHANGED <<doc, ptable, KAFKA_ENDPOINTS, es_pid, capture_pid,
                 es_http_port_entry, es_needs_restart, exitCode, log>>
  /\ UNCHANGED <<plannerVars, assemblerVars>>

ConcurrentNext ==
  \/ \E p \in Invocations :
       \/ InvokeConcurrently(p)
       \/ Parse(p)
       \/ ObserveEs(p)
       \/ ObserveCapture(p)
       \/ ReconcilePort(p)
       \/ KeepEs(p)
       \/ KillEs(p)
       \/ LaunchEs(p)
       \/ KillCapture(p)
       \/ LaunchCapture(p)
       \/ Verify(p)
  \/ \E pid \in DOMAIN ptable : Settle(pid)

\* ---------------------------------------------- properties of the supervisor
MutatingEvents ==
  {"write_config", "kill_es", "launch_es", "kill_capture", "launch_capture"}

\* What an invocation has changed on the node, in order.
Mutations(p) == SelectSeq(log[p], LAMBDA e : e \in MutatingEvents)

UsagePrinted(p) == \E i \in DOMAIN log[p] : log[p][i] = "usage"

Alive(name) == Pgrep(name) # {}

\* The port in force under last-occurrence-wins, given the http.port lines.
ConfiguredPort(entry) == entry[Len(entry)].value

PortSettled == doc.exists /\ GrepPort(doc) # <<>>
                 /\ \A i \in DOMAIN GrepPort(doc) : GrepPort(doc)[i].value = InternalPort

NoStartupFailure == \A pid \in DOMAIN ptable : ptable[pid].st # "failed"

\* C6: an invocation that finds both processes alive changes nothing (no write
\* of the configuration, no kill, no launch) and exits with status 0, whatever
\* the configured port is.
C6_BothAliveNoOp ==
  \A p \in Invocations :
    (pc[p] = "done" /\ es_pid[p] # {} /\ capture_pid[p] # {}) =>
      /\ exitCode[p] = 0
      /\ Mutations(p) = <<>>
      /\ log[p] = <<"pgrep_es", "pgrep_capture">>

C6_Witness ==
  /\ pc[1] = "done"
  /\ es_pid[1] = {1}
  /\ capture_pid[1] = {2}
  /\ exitCode[1] = 0
  /\ log[1] = <<"pgrep_es", "pgrep_capture">>
  /\ doc.lines = <<PortLine(InternalPort)>>
  /\ pc[2] = "idle"

\* The case of C7 as the invocation saw it: Elasticsearch alive, no capture
\* proxy, a port configured that is not the internal port.
WrongPortNoSidecar(p) ==
  /\ es_pid[p] # {}
  /\ capture_pid[p] = {}
  /\ es_http_port_entry[p] # <<>>
  /\ ConfiguredPort(es_http_port_entry[p]) # InternalPort

\* C7: from Elasticsearch alive on a wrong port and no capture proxy, one
\* invocation rewrites the port to 19200, kills and relaunches Elasticsearch
\* and starts the capture proxy, in that order, and exits 0; unless a launched
\* process fails to start, both are then alive with the port correct, and a
\* second invocation that gets to inspect the node changes nothing and exits 0.
C7_Converges ==
  (pc[1] = "done" /\ WrongPortNoSidecar(1)) =>
    /\ Mutations(1) = <<"write_config", "kill_es", "launch_es", "launch_capture">>
    /\ exitCode[1] = 0
    /\ PortSettled
    /\ \A pid \in es_pid[1] : ptable[pid].st = "killed"
    /\ NoStartupFailure =>
         /\ Alive("es") /\ Alive("capture")
         /\ (pc[2] = "done" /\ log[2] # <<>> /\ ~UsagePrinted(2)) =>
              /\ exitCode[2] = 0
              /\ Mutations(2) = <<>>

C7_Witness ==
  /\ pc[1] = "done" /\ WrongPortNoSidecar(1)
  /\ Mutations(1) = <<"write_config", "kill_es", "launch_es", "launch_capture">>
  /\ Alive("es") /\ Alive("capture") /\ PortSettled
  /\ pc[2] = "done" /\ exitCode[2] = 0
  /\ log[2] = <<"pgrep_es", "pgrep_capture">>

\* The capture proxy was found not alive at the check after the grace period.
SidecarFoundDead(p) == \E i \in DOMAIN log[p] : log[p][i] = "tail_log"

\* C8: an invocation that finds the capture proxy not alive after the grace
\* period ends with a non-zero status, and does nothing more to Elasticsearch
\* or its configuration.
C8_SidecarFailureExit ==
  \A p \in Invocations :
    (pc[p] = "done" /\ SidecarFoundDead(p)) =>
      /\ exitCode[p] # 0
      /\ SubSeq(log[p], Len(log[p]) - 2, Len(log[p]))
           = <<"launch_capture", "pgrep_capture", "tail_log">>

\* C9: an invocation without --kafka-endpoints prints usage and exits with
\* status 1, having written no configuration and killed or launched nothing.
C9_MissingEndpointsIsUsageError ==
  \A p \in Invocations :
    (pc[p] = "done" /\ KAFKA_ENDPOINTS[p] = Unset) =>
      /\ exitCode[p] = 1
      /\ UsagePrinted(p)
      /\ Mutations(p) = <<>>

\* The words that call usage: help in either spelling, and any other option
\* than --kafka-endpoints.
UsageWords == {"-h", "--help", "--verbose"}

\* The positions of a command line the loop reads as $1: a word that follows
\* --kafka-endpoints is that option's value.
RECURSIVE OptionPositionsFrom(_, _)
OptionPositionsFrom(a, i) ==
  IF i > Len(a) THEN {}
  ELSE {i} \cup OptionPositionsFrom(a, IF a[i] = "--kafka-endpoints" THEN i + 2 ELSE i + 1)

OptionPositions(a) == OptionPositionsFrom(a, 1)

\* The invocation ends in the argument loop with usage and status 1, having
\* inspected and changed nothing.
UsageExitStep(p) ==
  /\ pc'[p] = "done"
  /\ exitCode'[p] = 1
  /\ log'[p] \in {<<"usage">>, <<"unknown_option", "usage">>}
  /\ doc' = doc
  /\ ptable' = ptable

\* C10 as stated: -h, --help or an unknown option anywhere on the command line
\* makes the invocation print usage and exit 1 before it inspects anything.
C10_UsageWordAnywhere ==
  [][\A p \in Invocations :
       (pc[p] = "parse" /\ pc'[p] # "parse"
          /\ \E i \in DOMAIN args[p] : args[p][i] \in UsageWords)
         => UsageExitStep(p)]_vars

\* C10, amended: -h, --help or an unknown option in a position the loop reads
\* as an option (anywhere but right after --kafka-endpoints) makes the
\* invocation print usage and exit 1 before it inspects anything.
C10_UsageWordInOptionPosition ==
  [][\A p \in Invocations :
       (pc[p] = "parse" /\ pc'[p] # "parse"
          /\ \E i \in OptionPositions(args[p]) : args[p][i] \in UsageWords)
         => UsageExitStep(p)]_vars

\* An unknown option after --kafka-endpoints and its value has ended the
\* invocation with usage.
C10_Witness ==
  /\ pc[1] = "done"
  /\ exitCode[1] = 1
  /\ KAFKA_ENDPOINTS[1] = "broker1:9092"
  /\ log[1] = <<"unknown_option", "usage">>

\* The kills and launches of an invocation, in order.
ProcessEvents(p) ==
  SelectSeq(log[p], LAMBDA e : e \in MutatingEvents \ {"write_config"})

Count(seq, e) == Cardinality({i \in DOMAIN seq : seq[i] = e})

\* The invocation has inspected both processes and not found both alive.
NotNoOp(p) ==
  /\ Len(log[p]) >= 2
  /\ log[p][1] = "pgrep_es" /\ log[p][2] = "pgrep_capture"
  /\ ~(es_pid[p] # {} /\ capture_pid[p] # {})

\* The document the rewrite rule of the specification yields: the setting
\* appended when no line has it, every line that has it set to the internal
\* port otherwise.
RuleLines(l) ==
  IF \A i \in DOMAIN l : l[i].key # "http.port"
    THEN Append(l, PortLine(InternalPort))
    ELSE [i \in DOMAIN l |->
            IF l[i].key = "http.port" THEN PortLine(InternalPort) ELSE l[i]]

\* C11: in an invocation that is not a no-op, the step that reconciles the
\* port of an existing document appends the setting when it is absent,
\* replaces it in place when it differs and leaves the document as it is when
\* it is correct, and in all three cases goes on to the process steps with the
\* internal port in the document.
C11_PortRewriteRule ==
  [][\A p \in Invocations :
       (pc[p] = "port" /\ pc'[p] # "port" /\ doc.exists) =>
         /\ doc'.lines = RuleLines(doc.lines)
         /\ pc'[p] = "es"
         /\ PortSettled']_vars

\* Every http.port line the invocation read names the internal port.
ReadCorrectPort(p) ==
  /\ es_http_port_entry[p] # <<>>
  /\ \A i \in DOMAIN es_http_port_entry[p] :
       es_http_port_entry[p][i].value = InternalPort

\* C13: an invocation that finds Elasticsearch alive, no capture proxy and
\* the internal port configured leaves Elasticsearch as it is (not killed, not
\* relaunched, same pid) and the document unchanged; it only launches the
\* capture proxy.
C13_CorrectPortKeepsPrimary ==
  \A p \in Invocations :
    (pc[p] = "done" /\ es_pid[p] # {} /\ capture_pid[p] = {} /\ ReadCorrectPort(p)) =>
      /\ ProcessEvents(p) = <<"launch_capture">>
      /\ \A pid \in es_pid[p] : ptable[pid].st # "killed"
      /\ GrepPort(doc) = es_http_port_entry[p]

\* C14: an invocation that finds no Elasticsearch, whatever the capture proxy
\* and the port setting of the document are, ends with the internal port in
\* the document and has launched Elasticsearch, then killed the capture proxy
\* if it saw one, then launched a capture proxy, in this order and nothing else.
C14_PrimaryAbsentOrder ==
  \A p \in Invocations :
    (pc[p] = "done" /\ NotNoOp(p) /\ es_pid[p] = {} /\ doc.exists) =>
      /\ PortSettled
      /\ ProcessEvents(p) =
           <<"launch_es">>
             \o (IF capture_pid[p] # {} THEN <<"kill_capture">> ELSE <<>>)
             \o <<"launch_capture">>

\* The invocation ended where set -e stops it: reading the port setting.
StoppedAtRead(p) ==
  /\ pc[p] = "done"
  /\ log[p] # <<>>
  /\ log[p][Len(log[p])] = "read_config"

Started(name) == {pid \in DOMAIN ptable : ptable[pid].name = name}

\* The invocation is past the step that starts Elasticsearch.
PastEsStep(p) ==
  \/ pc[p] \in {"capture", "capture_launch", "sleep"}
  \/ pc[p] = "done" /\ exitCode[p] = 0 /\ NotNoOp(p)

\* The invocation is past the launch of the capture proxy.
PastCaptureLaunch(p) ==
  \/ pc[p] = "sleep"
  \/ pc[p] = "done" /\ exitCode[p] = 0 /\ NotNoOp(p)

\* C15: nothing between an invocation's look at the process table and its
\* launches takes the other invocation into account: when two interleaved
\* invocations both saw no Elasticsearch, both start one, and when both saw no
\* capture proxy, both start one, so that the process is launched twice.
C15_BothLaunch ==
  /\ (\A p \in Invocations : NotNoOp(p) /\ es_pid[p] = {} /\ PastEsStep(p))
       => Cardinality(Started("es")) >= 2
  /\ (\A p \in Invocations : NotNoOp(p) /\ capture_pid[p] = {} /\ PastCaptureLaunch(p))
       => Cardinality(Started("capture")) >= 2

\* Both invocations saw the same Elasticsearch pid and no capture proxy, and
\* two capture proxies run: each looked before the other launched.
C15_Witness ==
  /\ \A p \in Invocations :
       /\ pc[p] = "done"
       /\ es_pid[p] = {1}
       /\ capture_pid[p] = {}
       /\ Count(log[p], "launch_capture") = 1
  /\ Cardinality({pid \in Started("capture") : ptable[pid].st = "up"}) = 2

\* ---------------------------------------------------------- specifications
PlannerIdle ==
  /\ props = [singleNodeCluster |-> FALSE, managerNodeCount |-> 0, dataNodeCount |-> 0,
              ingestNodeCount |-> 0, clientNodeCount |-> 0, mlNodeCount |-> 0,
              dashboards |-> FALSE]
  /\ ppc = "idle"
  /\ managerAsgCapacity = 0
  /\ dataAsgCapacity = 0
  /\ seedConfig = ""
  /\ groups = <<>>
  /\ dataNodeAsg = 0
  /\ clientNodeAsg = 0
  /\ singleNodeInstance = FALSE
  /\ targets = {}

\* No script runs while the stack is built.
SupervisorStopped ==
  /\ doc = [exists |-> FALSE, lines |-> <<>>]
  /\ ptable = <<>>
  /\ SupervisorIdle

\* One construction of the stack.
PlannerSpecInit == PlannerInit /\ SupervisorStopped /\ AssemblerIdle

PlannerSpec == PlannerSpecInit /\ [][PlannerNext]_vars

\* The script run on a node, once and then once more; no stack is built.
SupervisorSpecInit == SupervisorInit /\ PlannerIdle /\ AssemblerIdle

SupervisorSpec == SupervisorSpecInit /\ [][SupervisorNext]_vars

\* The script run twice on a node at the same time; no stack is built.
ConcurrentSpec == SupervisorSpecInit /\ [][ConcurrentNext]_vars

\* The boot commands of one node assembled and run; no stack is built and no
\* script runs.
AssemblerSpecInit == AssemblerInit /\ PlannerIdle /\ SupervisorStopped

AssemblerSpec == AssemblerSpecInit /\ [][AssemblerNext]_vars

====
